---- MODULE Spec2Model ----
(***************************************************************************)
(* Model of src/data.rs of syn: the declaration syntax tree (Variant,      *)
(* Fields, Field, Visibility), its synom parsers and its quote printers.   *)
(*                                                                         *)
(* A token stream is a sequence of token trees.  A cursor is the sequence  *)
(* of token trees that remain to be read, so "the same position" is "the   *)
(* same remaining sequence".  Spans are not modelled.                      *)
(***************************************************************************)
EXTENDS Naturals, Sequences, FiniteSets, TLC

VARIABLES input, phase, op, res, out

vars == <<input, phase, op, res, out>>

(***************************************************************************)
(* Token trees.                                                            *)
(***************************************************************************)
Term(s) == [k |-> "term", v |-> s, s |-> <<>>]

Op(c) == [k |-> "op", v |-> c, s |-> <<>>]

Lit(l) == [k |-> "lit", v |-> l, s |-> <<>>]

Group(d, ts) == [k |-> "group", v |-> d, s |-> ts]

Keywords == {"pub", "crate", "self", "super", "in"}

(***************************************************************************)
(* Option<T> is a sequence of length 0 or 1.                               *)
(***************************************************************************)
None == <<>>

Some(x) == <<x>>

IsSome(o) == Len(o) = 1

(***************************************************************************)
(* PResult: Ok((node, rest)) or Err.  An error carries neither a node nor  *)
(* a position.                                                             *)
(***************************************************************************)
Ok(n, r) == [ok |-> TRUE, node |-> n, rest |-> r]

Err == [ok |-> FALSE]

(***************************************************************************)
(* synom primitives.                                                       *)
(***************************************************************************)
keyword(i, kw) ==
    IF i # <<>> /\ Head(i).k = "term" /\ Head(i).v = kw
    THEN Ok(kw, Tail(i))
    ELSE Err

punct(i, c) ==
    IF i # <<>> /\ Head(i).k = "op" /\ Head(i).v = c
    THEN Ok(c, Tail(i))
    ELSE Err

epsilon(i) == Ok("", i)

\* One step of a parser: F on the success r, e on a failure.
match(r, F(_), e) == IF r.ok THEN F(r) ELSE e

\* One step of do_parse!: a failure of r fails the sequence.
then(r, F(_)) == match(r, F, Err)

\* option!(p): on failure of p, None at the original position.
option(r, i) == IF r.ok THEN Ok(Some(r.node), r.rest) ELSE Ok(None, i)

\* alt!(b1 | b2 | ...): the first branch that succeeds, else a failure.
RECURSIVE alt(_)
alt(rs) ==
    IF rs = <<>> THEN Err
    ELSE IF Head(rs).ok THEN Head(rs)
    ELSE alt(Tail(rs))

\* parens!/braces!/brackets!(f): the next token tree is a group with the
\* delimiter d, and f reads the whole of its content.
parse_delimited(i, d, F(_)) ==
    IF i # <<>> /\ Head(i).k = "group" /\ Head(i).v = d
    THEN then(F(Head(i).s),
              LAMBDA r : IF r.rest = <<>>
                         THEN Ok(<<d, r.node>>, Tail(i))
                         ELSE Err)
    ELSE Err

(***************************************************************************)
(* Collaborators of data.rs: Ident, Path, Type, Expr, Attribute.           *)
(***************************************************************************)
Ident_parse(i) ==
    IF i # <<>> /\ Head(i).k = "term" /\ Head(i).v \notin Keywords
    THEN Ok(Head(i).v, Tail(i))
    ELSE Err

Ident_to_tokens(id) == <<Term(id)>>

mod_style_path_segment(i) ==
    alt(<<Ident_parse(i), keyword(i, "super"), keyword(i, "self"),
          keyword(i, "crate")>>)

\* The segments after the first one: `::` segment, repeated.
RECURSIVE PathMoreSegments(_, _)
PathMoreSegments(i, acc) ==
    match(punct(i, "::"),
          LAMBDA s :
              match(mod_style_path_segment(s.rest),
                    LAMBDA e : PathMoreSegments(e.rest, Append(acc, e.node)),
                    Ok(acc, i)),
          Ok(acc, i))

Path_parse_mod_style(i) ==
    then(option(punct(i, "::"), i), LAMBDA lead :
    then(mod_style_path_segment(lead.rest), LAMBDA first :
    then(PathMoreSegments(first.rest, <<first.node>>), LAMBDA more :
        Ok([leading_colon |-> lead.node, segments |-> more.node],
           more.rest))))

\* Token![self] / Token![super] into Path: one segment, no leading colon.
PathFromKeyword(kw) == [leading_colon |-> None, segments |-> <<kw>>]

RECURSIVE SegmentsTokens(_)
SegmentsTokens(segs) ==
    IF segs = <<>> THEN <<>>
    ELSE IF Len(segs) = 1 THEN <<Term(segs[1])>>
    ELSE <<Term(segs[1]), Op("::")>> \o SegmentsTokens(Tail(segs))

Path_to_tokens(p) ==
    (IF IsSome(p.leading_colon) THEN <<Op("::")>> ELSE <<>>)
        \o SegmentsTokens(p.segments)

RECURSIVE Type_parse(_)
Type_parse(i) ==
    IF i = <<>> THEN Err
    ELSE IF Head(i).k = "term" /\ Head(i).v \notin Keywords
    THEN Ok([tag |-> "Path", id |-> Head(i).v], Tail(i))
    ELSE IF Head(i).k = "group" /\ Head(i).v = "paren"
    THEN then(Type_parse(Head(i).s),
              LAMBDA r : IF r.rest = <<>>
                         THEN Ok([tag |-> "Paren", elem |-> r.node], Tail(i))
                         ELSE Err)
    ELSE Err

RECURSIVE Type_to_tokens(_)
Type_to_tokens(t) ==
    IF t.tag = "Path" THEN <<Term(t.id)>>
    ELSE <<Group("paren", Type_to_tokens(t.elem))>>

Expr_parse(i) ==
    IF i # <<>> /\ Head(i).k = "lit"
    THEN Ok([tag |-> "Lit", v |-> Head(i).v], Tail(i))
    ELSE IF i # <<>> /\ Head(i).k = "term" /\ Head(i).v \notin Keywords
    THEN Ok([tag |-> "Path", v |-> Head(i).v], Tail(i))
    ELSE Err

Expr_to_tokens(e) == IF e.tag = "Lit" THEN <<Lit(e.v)>> ELSE <<Term(e.v)>>

\* The content of #[...]: a mod-style path, then any token trees.
AttrBody(i) ==
    then(Path_parse_mod_style(i),
         LAMBDA p : Ok([path |-> p.node, tts |-> p.rest], <<>>))

Attribute_parse_outer(i) ==
    then(punct(i, "#"), LAMBDA pound :
    then(parse_delimited(pound.rest, "bracket", AttrBody), LAMBDA b :
        Ok(b.node[2], b.rest)))

Attribute_to_tokens(a) ==
    <<Op("#"), Group("bracket", Path_to_tokens(a.path) \o a.tts)>>

\* many0!(Attribute::parse_outer)
RECURSIVE many0_attrs(_, _)
many0_attrs(i, acc) ==
    match(Attribute_parse_outer(i),
          LAMBDA a : many0_attrs(a.rest, Append(acc, a.node)),
          Ok(acc, i))

\* tokens.append_all(&self.attrs)
RECURSIVE append_all_attrs(_)
append_all_attrs(as) ==
    IF as = <<>> THEN <<>>
    ELSE Attribute_to_tokens(Head(as)) \o append_all_attrs(Tail(as))

\* TokensOrDefault(&Option<Token![:]>): the token, or a default one.
TokensOrDefault_colon(o) == IF IsSome(o) THEN <<Op(o[1])>> ELSE <<Op(":")>>

\* Option<Token![in]>::to_tokens: the token when present, nothing otherwise.
OptionTokens_in(o) == IF IsSome(o) THEN <<Term(o[1])>> ELSE <<>>

(***************************************************************************)
(* Visibility::parse: an ordered alternation of six branches, every one    *)
(* of them started at the position i the alternation was given.            *)
(***************************************************************************)
VisCrateBranch(i) ==
    then(keyword(i, "pub"), LAMBDA pub_token :
    then(parse_delimited(pub_token.rest, "paren",
                         LAMBDA j : keyword(j, "crate")), LAMBDA other :
        Ok([tag |-> "Crate",
            pub_token |-> pub_token.node,
            paren_token |-> other.node[1],
            crate_token |-> other.node[2]], other.rest)))

VisSelfBranch(i) ==
    then(keyword(i, "pub"), LAMBDA pub_token :
    then(parse_delimited(pub_token.rest, "paren",
                         LAMBDA j : keyword(j, "self")), LAMBDA other :
        Ok([tag |-> "Restricted",
            pub_token |-> pub_token.node,
            paren_token |-> other.node[1],
            in_token |-> None,
            path |-> PathFromKeyword(other.node[2])], other.rest)))

VisSuperBranch(i) ==
    then(keyword(i, "pub"), LAMBDA pub_token :
    then(parse_delimited(pub_token.rest, "paren",
                         LAMBDA j : keyword(j, "super")), LAMBDA other :
        Ok([tag |-> "Restricted",
            pub_token |-> pub_token.node,
            paren_token |-> other.node[1],
            in_token |-> None,
            path |-> PathFromKeyword(other.node[2])], other.rest)))

\* The content of the parentheses of the fourth branch: `in` path.
InPath(j) ==
    then(keyword(j, "in"), LAMBDA in_tok :
    then(Path_parse_mod_style(in_tok.rest), LAMBDA restricted :
        Ok(<<in_tok.node, restricted.node>>, restricted.rest)))

\* A faulty fourth branch: the `in` token is read and then not kept.
VisInBranch_drops_in(i) ==
    then(keyword(i, "pub"), LAMBDA pub_token :
    then(parse_delimited(pub_token.rest, "paren", InPath), LAMBDA other :
        Ok([tag |-> "Restricted",
            pub_token |-> pub_token.node,
            paren_token |-> other.node[1],
            in_token |-> None,
            path |-> other.node[2][2]], other.rest)))

VisInBranch(i) ==
    then(keyword(i, "pub"), LAMBDA pub_token :
    then(parse_delimited(pub_token.rest, "paren", InPath), LAMBDA other :
        Ok([tag |-> "Restricted",
            pub_token |-> pub_token.node,
            paren_token |-> other.node[1],
            in_token |-> Some(other.node[2][1]),
            path |-> other.node[2][2]], other.rest)))

\* A faulty fifth branch: `pub` only when no group follows it.
VisPublicBranch_bare_only(i) ==
    then(keyword(i, "pub"), LAMBDA tok :
        IF tok.rest # <<>> /\ Head(tok.rest).k = "group" THEN Err
        ELSE Ok([tag |-> "Public", pub_token |-> tok.node], tok.rest))

VisPublicBranch(i) ==
    then(keyword(i, "pub"), LAMBDA tok :
        Ok([tag |-> "Public", pub_token |-> tok.node], tok.rest))

VisInheritedBranch(i) ==
    then(epsilon(i), LAMBDA e : Ok([tag |-> "Inherited"], e.rest))

\* A faulty alternation: the bare `pub` branch is tried first.
Visibility_parse_pub_first(i) ==
    alt(<<VisPublicBranch(i), VisCrateBranch(i), VisSelfBranch(i),
          VisSuperBranch(i), VisInBranch(i), VisInheritedBranch(i)>>)

\* A faulty alternation: the epsilon branch is missing.
Visibility_parse_no_epsilon(i) ==
    alt(<<VisCrateBranch(i), VisSelfBranch(i), VisSuperBranch(i),
          VisInBranch(i), VisPublicBranch(i)>>)

\* A faulty alternation: a branch that fails after reading `pub` leaves the
\* position after `pub`, and the later branches start there.
Visibility_parse_no_restore(i) ==
    IF keyword(i, "pub").ok /\ ~VisCrateBranch(i).ok
    THEN alt(<<VisSelfBranch(Tail(i)), VisSuperBranch(Tail(i)),
               VisInBranch(Tail(i)), VisPublicBranch(Tail(i)),
               VisInheritedBranch(Tail(i))>>)
    ELSE alt(<<VisCrateBranch(i), VisInheritedBranch(i)>>)

Visibility_parse(i) ==
    alt(<<VisCrateBranch(i), VisSelfBranch(i), VisSuperBranch(i),
          VisInBranch(i), VisPublicBranch(i), VisInheritedBranch(i)>>)

(***************************************************************************)
(* Field::parse_named and Field::parse_unnamed.                            *)
(***************************************************************************)
Field_parse_named(i) ==
    then(many0_attrs(i, <<>>), LAMBDA attrs :
    then(Visibility_parse(attrs.rest), LAMBDA vis :
    then(Ident_parse(vis.rest), LAMBDA id :
    then(punct(id.rest, ":"), LAMBDA colon :
    then(Type_parse(colon.rest), LAMBDA ty :
        Ok([ident |-> Some(id.node),
            vis |-> vis.node,
            attrs |-> attrs.node,
            ty |-> ty.node,
            colon_token |-> Some(colon.node)], ty.rest))))))

Field_parse_unnamed(i) ==
    then(many0_attrs(i, <<>>), LAMBDA attrs :
    then(Visibility_parse(attrs.rest), LAMBDA vis :
    then(Type_parse(vis.rest), LAMBDA ty :
        Ok([ident |-> None,
            colon_token |-> None,
            vis |-> vis.node,
            attrs |-> attrs.node,
            ty |-> ty.node], ty.rest))))

(***************************************************************************)
(* Delimited<Field, Token![,]>: a sequence of (item, optional comma).      *)
(* The element parser is a function pointer, modelled by its name.         *)
(***************************************************************************)
FieldParse(which, i) ==
    IF which = "parse_named" THEN Field_parse_named(i)
    ELSE Field_parse_unnamed(i)

push_first(item) == <<[item |-> item, punct |-> None]>>

push_next(d, item, sep) ==
    [d EXCEPT ![Len(d)].punct = Some(sep)]
        \o <<[item |-> item, punct |-> None]>>

push_trailing(d, sep) == [d EXCEPT ![Len(d)].punct = Some(sep)]

\* After an element: a separator and another element, repeated.
RECURSIVE DelimitedMore(_, _, _)
DelimitedMore(which, i, acc) ==
    match(punct(i, ","),
          LAMBDA s :
              match(FieldParse(which, s.rest),
                    LAMBDA e :
                        IF Len(e.rest) = Len(s.rest) THEN Ok(acc, i)
                        ELSE DelimitedMore(which, e.rest,
                                           push_next(acc, e.node, s.node)),
                    Ok(acc, i)),
          Ok(acc, i))

Delimited_parse_terminated_with(which, i) ==
    match(FieldParse(which, i),
          LAMBDA first :
              IF Len(first.rest) = Len(i) THEN Err
              ELSE then(DelimitedMore(which, first.rest,
                                      push_first(first.node)),
                        LAMBDA more :
                            match(punct(more.rest, ","),
                                  LAMBDA trail :
                                      Ok(push_trailing(more.node, trail.node),
                                         trail.rest),
                                  more)),
          Ok(<<>>, i))

(***************************************************************************)
(* FieldsNamed::parse, FieldsUnnamed::parse, Variant::parse.               *)
(***************************************************************************)
\* A faulty FieldsNamed::parse: the elements are read by parse_unnamed.
FieldsNamed_parse_unnamed_elems(i) ==
    then(parse_delimited(i, "brace",
             LAMBDA j : Delimited_parse_terminated_with("parse_unnamed", j)),
         LAMBDA r : Ok([tag |-> "Named",
                        brace_token |-> r.node[1],
                        fields |-> r.node[2]], r.rest))

FieldsNamed_parse(i) ==
    then(parse_delimited(i, "brace",
             LAMBDA j : Delimited_parse_terminated_with("parse_named", j)),
         LAMBDA r : Ok([tag |-> "Named",
                        brace_token |-> r.node[1],
                        fields |-> r.node[2]], r.rest))

FieldsUnnamed_parse(i) ==
    then(parse_delimited(i, "paren",
             LAMBDA j : Delimited_parse_terminated_with("parse_unnamed", j)),
         LAMBDA r : Ok([tag |-> "Unnamed",
                        paren_token |-> r.node[1],
                        fields |-> r.node[2]], r.rest))

FieldsUnitBranch(i) ==
    then(epsilon(i), LAMBDA e : Ok([tag |-> "Unit"], e.rest))

\* tuple!(punct!(=), syn!(Expr))
EqExpr(i) ==
    then(punct(i, "="), LAMBDA eq :
    then(Expr_parse(eq.rest), LAMBDA e :
        Ok(<<eq.node, e.node>>, e.rest)))

\* A faulty Variant::parse: the discriminant is not read.
Variant_parse_no_disr(i) ==
    then(many0_attrs(i, <<>>), LAMBDA attrs :
    then(Ident_parse(attrs.rest), LAMBDA id :
    then(alt(<<FieldsNamed_parse(id.rest),
               FieldsUnnamed_parse(id.rest),
               FieldsUnitBranch(id.rest)>>), LAMBDA fields :
        Ok([ident |-> id.node,
            attrs |-> attrs.node,
            fields |-> fields.node,
            discriminant |-> None], fields.rest))))

Variant_parse(i) ==
    then(many0_attrs(i, <<>>), LAMBDA attrs :
    then(Ident_parse(attrs.rest), LAMBDA id :
    then(alt(<<FieldsNamed_parse(id.rest),
               FieldsUnnamed_parse(id.rest),
               FieldsUnitBranch(id.rest)>>), LAMBDA fields :
    then(option(EqExpr(fields.rest), fields.rest), LAMBDA disr :
        Ok([ident |-> id.node,
            attrs |-> attrs.node,
            fields |-> fields.node,
            discriminant |-> disr.node], disr.rest)))))

(***************************************************************************)
(* Printing.  to_tokens appends to a token stream; here it returns what    *)
(* it appends.  surround wraps what the closure appends in one group.      *)
(***************************************************************************)
surround(d, inner) == <<Group(d, inner)>>

VisPublic_to_tokens(v) == <<Term("pub")>>

VisCrate_to_tokens(v) ==
    <<Term("pub")>> \o surround("paren", <<Term("crate")>>)

\* A faulty printer: `in` is added whenever the path is not `self` or `super`.
VisRestricted_to_tokens_auto_in(v) ==
    <<Term("pub")>>
        \o surround("paren",
               (IF v.path \notin {PathFromKeyword("self"), PathFromKeyword("super")}
                THEN <<Term("in")>>
                ELSE OptionTokens_in(v.in_token))
               \o Path_to_tokens(v.path))

VisRestricted_to_tokens(v) ==
    <<Term("pub")>>
        \o surround("paren", OptionTokens_in(v.in_token) \o Path_to_tokens(v.path))

Visibility_to_tokens(v) ==
    CASE v.tag = "Public" -> VisPublic_to_tokens(v)
      [] v.tag = "Crate" -> VisCrate_to_tokens(v)
      [] v.tag = "Restricted" -> VisRestricted_to_tokens(v)
      [] v.tag = "Inherited" -> <<>>

\* A faulty printer: the colon is printed as captured, not with the ident.
Field_to_tokens_colon_as_captured(f) ==
    append_all_attrs(f.attrs)
        \o Visibility_to_tokens(f.vis)
        \o (IF IsSome(f.ident) THEN Ident_to_tokens(f.ident[1]) ELSE <<>>)
        \o (IF IsSome(f.colon_token) THEN <<Op(f.colon_token[1])>> ELSE <<>>)
        \o Type_to_tokens(f.ty)

Field_to_tokens(f) ==
    append_all_attrs(f.attrs)
        \o Visibility_to_tokens(f.vis)
        \o (IF IsSome(f.ident)
            THEN Ident_to_tokens(f.ident[1]) \o TokensOrDefault_colon(f.colon_token)
            ELSE <<>>)
        \o Type_to_tokens(f.ty)

RECURSIVE Delimited_to_tokens(_)
Delimited_to_tokens(d) ==
    IF d = <<>> THEN <<>>
    ELSE Field_to_tokens(Head(d).item)
            \o (IF IsSome(Head(d).punct) THEN <<Op(Head(d).punct[1])>> ELSE <<>>)
            \o Delimited_to_tokens(Tail(d))

FieldsNamed_to_tokens(f) == surround("brace", Delimited_to_tokens(f.fields))

FieldsUnnamed_to_tokens(f) == surround("paren", Delimited_to_tokens(f.fields))

Fields_to_tokens(f) ==
    CASE f.tag = "Named" -> FieldsNamed_to_tokens(f)
      [] f.tag = "Unnamed" -> FieldsUnnamed_to_tokens(f)
      [] f.tag = "Unit" -> <<>>

\* A faulty printer: the discriminant is not printed.
Variant_to_tokens_no_disc(v) ==
    append_all_attrs(v.attrs)
        \o Ident_to_tokens(v.ident)
        \o Fields_to_tokens(v.fields)

Variant_to_tokens(v) ==
    append_all_attrs(v.attrs)
        \o Ident_to_tokens(v.ident)
        \o Fields_to_tokens(v.fields)
        \o (IF IsSome(v.discriminant)
            THEN <<Op(v.discriminant[1][1])>> \o Expr_to_tokens(v.discriminant[1][2])
            ELSE <<>>)

(***************************************************************************)
(* Bounds and the token streams the parsers are run on.                    *)
(***************************************************************************)
MaxInner == 4

MaxBody == 3

MaxPieces == 3

MaxAttrs == 1

SeqsUpTo(S, n) == UNION {[1..k -> S] : k \in 0..n}

RECURSIVE Flatten(_)
Flatten(ss) == IF ss = <<>> THEN <<>> ELSE Head(ss) \o Flatten(Tail(ss))

Pub == Term("pub")

Paren(ts) == Group("paren", ts)

AttrTokens == <<Op("#"), Group("bracket", <<Term("a")>>)>>

AttrPrefixes == {Flatten(as) : as \in SeqsUpTo({AttrTokens}, MaxAttrs)}

\* Visibility qualifiers: every parenthesised content up to MaxInner tokens.
VisInnerTok ==
    {Term("crate"), Term("self"), Term("super"), Term("in"), Term("a"), Op("::")}

VisHeads == {<<>>, <<Pub>>, <<Term("a")>>, <<Term("crate")>>}

VisGroups ==
    {<<>>, <<Group("brace", <<Term("crate")>>)>>}
        \cup {<<Paren(ts)>> : ts \in SeqsUpTo(VisInnerTok, MaxInner)}

VisTails == {<<>>, <<Term("a")>>, <<Term("a"), Op(":"), Term("T")>>}

VisInputs == {h \o g \o t : h \in VisHeads, g \in VisGroups, t \in VisTails}

\* Fields: a qualifier, then every body up to MaxBody tokens.  The last
\* qualifier holds a lone `(` token, as a stream built by hand may.
VisPrefixes ==
    {<<>>, <<Pub>>,
     <<Pub, Paren(<<Term("crate")>>)>>,
     <<Pub, Paren(<<Term("self")>>)>>,
     <<Pub, Paren(<<Term("super")>>)>>,
     <<Pub, Paren(<<Term("in"), Term("a"), Op("::"), Term("b")>>)>>,
     <<Pub, Paren(<<Term("a")>>)>>,
     <<Pub, Paren(<<Term("crate"), Term("T")>>)>>,
     <<Pub, Op("(") , Term("crate"), Term("T")>>}

BodyTok == {Term("a"), Op(":"), Term("T"), Paren(<<Term("T")>>)}

FieldInputs ==
    {a \o v \o b : a \in AttrPrefixes, v \in VisPrefixes,
                   b \in SeqsUpTo(BodyTok, MaxBody)}

\* Variants: attributes, a name, a field list built of up to MaxPieces
\* pieces, a discriminant.
ListPieces ==
    {<<Op(",")>>,
     <<Term("a"), Op(":"), Term("T")>>,
     <<Term("T")>>,
     <<Pub, Paren(<<Term("crate")>>), Term("a"), Op(":"), Term("T")>>,
     <<Pub, Paren(<<Term("self")>>), Term("T")>>}

FieldLists == {Flatten(ps) : ps \in SeqsUpTo(ListPieces, MaxPieces)}

VariantNames == {<<>>, <<Term("Foo")>>}

VariantFields ==
    {<<>>} \cup {<<Group(d, l)>> : d \in {"paren", "brace"}, l \in FieldLists}

VariantDiscs ==
    {<<>>, <<Op("="), Lit("1")>>, <<Op("=")>>, <<Lit("1")>>}

VariantInputs ==
    {a \o n \o f \o d : a \in AttrPrefixes, n \in VariantNames,
                        f \in VariantFields, d \in VariantDiscs}

Inputs == VisInputs \cup FieldInputs \cup VariantInputs

\* Nodes built directly, not by a parser.
BuiltPaths ==
    {PathFromKeyword("self"), PathFromKeyword("super"), PathFromKeyword("a"),
     [leading_colon |-> None, segments |-> <<"a", "b">>]}

BuiltRestricted ==
    {[tag |-> "Restricted", pub_token |-> "pub", paren_token |-> "paren",
      in_token |-> o, path |-> p] : o \in {None, Some("in")}, p \in BuiltPaths}

BuiltFields ==
    {[attrs |-> as, vis |-> v, ident |-> id, colon_token |-> c,
      ty |-> [tag |-> "Path", id |-> "T"]] :
        as \in {<<>>, <<[path |-> PathFromKeyword("a"), tts |-> <<>>]>>},
        v \in {[tag |-> "Inherited"], [tag |-> "Public", pub_token |-> "pub"]},
        id \in {None, Some("x")},
        c \in {None, Some(":")}}

(***************************************************************************)
(* The state machine: a token stream is parsed by one of the four parse    *)
(* entry points, or a node is built directly; a node is then printed.      *)
(***************************************************************************)
Init ==
    /\ input \in Inputs
    /\ phase = "input"
    /\ op = "none"
    /\ res = Err
    /\ out = <<>>

ParseVariant ==
    /\ phase = "input"
    /\ res' = Variant_parse(input)
    /\ op' = "Variant::parse"
    /\ phase' = "parsed"
    /\ UNCHANGED <<input, out>>

ParseFieldNamed ==
    /\ phase = "input"
    /\ res' = Field_parse_named(input)
    /\ op' = "Field::parse_named"
    /\ phase' = "parsed"
    /\ UNCHANGED <<input, out>>

ParseFieldUnnamed ==
    /\ phase = "input"
    /\ res' = Field_parse_unnamed(input)
    /\ op' = "Field::parse_unnamed"
    /\ phase' = "parsed"
    /\ UNCHANGED <<input, out>>

ParseVisibility ==
    /\ phase = "input"
    /\ res' = Visibility_parse(input)
    /\ op' = "Visibility::parse"
    /\ phase' = "parsed"
    /\ UNCHANGED <<input, out>>

BuildField ==
    /\ phase = "input"
    /\ input = <<>>
    /\ \E f \in BuiltFields : res' = Ok(f, <<>>)
    /\ op' = "Field"
    /\ phase' = "parsed"
    /\ UNCHANGED <<input, out>>

BuildVisRestricted ==
    /\ phase = "input"
    /\ input = <<>>
    /\ \E v \in BuiltRestricted : res' = Ok(v, <<>>)
    /\ op' = "VisRestricted"
    /\ phase' = "parsed"
    /\ UNCHANGED <<input, out>>

PrintVariant ==
    /\ phase = "parsed"
    /\ op = "Variant::parse"
    /\ res.ok
    /\ out' = Variant_to_tokens(res.node)
    /\ phase' = "printed"
    /\ UNCHANGED <<input, op, res>>

PrintField ==
    /\ phase = "parsed"
    /\ op \in {"Field::parse_named", "Field::parse_unnamed", "Field"}
    /\ res.ok
    /\ out' = Field_to_tokens(res.node)
    /\ phase' = "printed"
    /\ UNCHANGED <<input, op, res>>

PrintVisibility ==
    /\ phase = "parsed"
    /\ op \in {"Visibility::parse", "VisRestricted"}
    /\ res.ok
    /\ out' = Visibility_to_tokens(res.node)
    /\ phase' = "printed"
    /\ UNCHANGED <<input, op, res>>

Next ==
    \/ ParseVariant
    \/ ParseFieldNamed
    \/ ParseFieldUnnamed
    \/ ParseVisibility
    \/ BuildField
    \/ BuildVisRestricted
    \/ PrintVariant
    \/ PrintField
    \/ PrintVisibility

Spec == Init /\ [][Next]_vars

(***************************************************************************)
(* Properties.                                                             *)
(***************************************************************************)
Parsed(o) == phase \in {"parsed", "printed"} /\ op = o

ParseOps ==
    {"Variant::parse", "Field::parse_named", "Field::parse_unnamed",
     "Visibility::parse"}

FieldOps == {"Field::parse_named", "Field::parse_unnamed", "Field"}

From(s, n) == SubSeq(s, n, Len(s))

\* The tokens of the node a parse entry point returned.
NodeTokens(o, n) ==
    CASE o = "Variant::parse" -> Variant_to_tokens(n)
      [] o \in FieldOps -> Field_to_tokens(n)
      [] o \in {"Visibility::parse", "VisRestricted"} -> Visibility_to_tokens(n)

\* C1: when a parser accepted the whole input and the node was printed,
\* the printed token stream is the input, token for token.
C1_RoundTrip ==
    (phase = "printed" /\ op \in ParseOps /\ res.rest = <<>>) => out = input

\* A variant with two named fields, separators and a discriminant was
\* parsed in full and printed.
C1_Witness ==
    /\ phase = "printed"
    /\ op = "Variant::parse"
    /\ res.rest = <<>>
    /\ res.node.fields.tag = "Named"
    /\ Len(res.node.fields.fields) = 2
    /\ IsSome(res.node.discriminant)
    /\ out = input

StartsWithPubCrate ==
    /\ Len(input) >= 2
    /\ input[1] = Pub
    /\ input[2] = Paren(<<Term("crate")>>)

\* C2: Visibility::parse on `pub` `(crate)` ... returns Visibility::Crate
\* and has consumed exactly the `pub` token and the group.
C2_PubCrate ==
    (Parsed("Visibility::parse") /\ StartsWithPubCrate)
        => /\ res.ok
           /\ res.node.tag = "Crate"
           /\ res.rest = From(input, 3)

\* `pub(crate) a : T` was parsed as a visibility.
C2_Witness ==
    /\ Parsed("Visibility::parse")
    /\ StartsWithPubCrate
    /\ Len(input) > 2
    /\ res.node.tag = "Crate"

NoLeadingPub == input = <<>> \/ Head(input) # Pub

\* C3: Visibility::parse never fails, and on an input that does not start
\* with `pub` it returns Inherited at the input position.
C3_Inherited ==
    Parsed("Visibility::parse")
        => /\ res.ok
           /\ NoLeadingPub => (res.node.tag = "Inherited" /\ res.rest = input)

\* A non-empty input that starts with a group was parsed as a visibility.
C3_Witness ==
    /\ Parsed("Visibility::parse")
    /\ input # <<>>
    /\ Head(input).k = "group"
    /\ res.node.tag = "Inherited"
    /\ res.rest = input

FieldConsistent(f) == IsSome(f.colon_token) = IsSome(f.ident)

AllItems(d, P(_)) == \A n \in 1..Len(d) : P(d[n].item)

\* C4: every field of a parsed Fields::Named has its ident and its colon,
\* every field of a parsed Fields::Unnamed has neither, and every parsed
\* Field has a colon exactly when it has an ident.
C4_TagConsistency ==
    /\ (Parsed("Variant::parse") /\ res.ok /\ res.node.fields.tag = "Named")
           => AllItems(res.node.fields.fields,
                       LAMBDA f : IsSome(f.ident) /\ IsSome(f.colon_token))
    /\ (Parsed("Variant::parse") /\ res.ok /\ res.node.fields.tag = "Unnamed")
           => AllItems(res.node.fields.fields,
                       LAMBDA f : ~IsSome(f.ident) /\ ~IsSome(f.colon_token))
    /\ (Parsed("Field::parse_named") /\ res.ok)
           => (IsSome(res.node.ident) /\ FieldConsistent(res.node))
    /\ (Parsed("Field::parse_unnamed") /\ res.ok)
           => (~IsSome(res.node.ident) /\ FieldConsistent(res.node))

\* A variant with two named fields was parsed.
C4_Witness ==
    /\ Parsed("Variant::parse")
    /\ res.ok
    /\ res.node.fields.tag = "Named"
    /\ Len(res.node.fields.fields) = 2

\* The input is `pub` `(in <path>)` ..., the path taking the whole group.
StartsWithPubIn ==
    /\ Len(input) >= 2
    /\ input[1] = Pub
    /\ input[2].k = "group"
    /\ input[2].v = "paren"
    /\ input[2].s # <<>>
    /\ Head(input[2].s) = Term("in")
    /\ Path_parse_mod_style(Tail(input[2].s)).ok
    /\ Path_parse_mod_style(Tail(input[2].s)).rest = <<>>

\* C5: a Restricted visibility returned by Visibility::parse has no
\* in_token only if its path is `self` or `super`, and has one whenever the
\* group held `in` and a mod-style path, which is then the path kept.
C5_InToken ==
    /\ (Parsed("Visibility::parse") /\ res.node.tag = "Restricted"
            /\ ~IsSome(res.node.in_token))
           => res.node.path \in {PathFromKeyword("self"), PathFromKeyword("super")}
    /\ (Parsed("Visibility::parse") /\ StartsWithPubIn)
           => /\ res.node.tag = "Restricted"
              /\ res.node.in_token = Some("in")
              /\ Path_to_tokens(res.node.path) = Tail(input[2].s)

\* `pub(in a::b)` was parsed as a visibility.
C5_Witness ==
    /\ Parsed("Visibility::parse")
    /\ StartsWithPubIn
    /\ res.node.in_token = Some("in")
    /\ res.node.path = [leading_colon |-> None, segments |-> <<"a", "b">>]

\* C6: a branch that fails after some of its sub-parsers succeeded has
\* consumed nothing.  After `pub`, when none of the four parenthesised
\* branches matches, the bare `pub` branch still sees that `pub`; the
\* tokens of a parsed node followed by the tokens left are the input; and
\* a failed parse returns no node.
C6_Backtracking ==
    /\ (Parsed("Visibility::parse") /\ input # <<>> /\ Head(input) = Pub
            /\ res.node.tag \notin {"Crate", "Restricted"})
           => (res.node.tag = "Public" /\ res.rest = Tail(input))
    /\ (phase \in {"parsed", "printed"} /\ op \in ParseOps /\ res.ok)
           => NodeTokens(op, res.node) \o res.rest = input
    /\ (phase \in {"parsed", "printed"} /\ op \in ParseOps /\ ~res.ok)
           => res = Err

\* `pub` `(crate a)`: the Crate branch read `pub`, the group and `crate`
\* and then failed; the result is Public with the group left.
C6_Witness ==
    /\ Parsed("Visibility::parse")
    /\ Len(input) >= 2
    /\ input[1] = Pub
    /\ input[2] = Paren(<<Term("crate"), Term("a")>>)
    /\ res.node.tag = "Public"
    /\ res.rest = Tail(input)

\* `pub(crate T` with the closing parenthesis missing: as the group
\* `(crate T)`, and as a lone `(` token that opens no group.
MalformedPubCrate ==
    {<<Pub, Paren(<<Term("crate"), Term("T")>>)>>,
     <<Pub, Op("("), Term("crate"), Term("T")>>}

NamePos == 2 * Len(res.node.attrs) + 1

\* The place after the variant's fields.
AfterFields == IF res.node.fields.tag = "Unit" THEN NamePos + 1 ELSE NamePos + 2

EqAt(n) == n <= Len(input) /\ input[n] = Op("=")

ExprAt(n) == n <= Len(input) /\ Expr_parse(<<input[n]>>).ok

\* C8: a name followed at once by `=` and an expression gives fields Unit
\* and that discriminant; when no `=` follows the fields there is no
\* discriminant and nothing after the fields is consumed.
C8_Discriminant ==
    (Parsed("Variant::parse") /\ res.ok)
        => /\ (EqAt(NamePos + 1) /\ ExprAt(NamePos + 2))
                  => /\ res.node.fields.tag = "Unit"
                     /\ IsSome(res.node.discriminant)
                     /\ res.node.discriminant[1][1] = "="
                     /\ Expr_to_tokens(res.node.discriminant[1][2])
                            = <<input[NamePos + 2]>>
                     /\ res.rest = From(input, NamePos + 3)
           /\ ~EqAt(AfterFields)
                  => /\ res.node.discriminant = None
                     /\ res.rest = From(input, AfterFields)

\* `Foo = 1` was parsed as a variant.
C8_Witness ==
    /\ Parsed("Variant::parse")
    /\ input = <<Term("Foo"), Op("="), Lit("1")>>
    /\ res.ok
    /\ IsSome(res.node.discriminant)

Colons(ts) == Cardinality({n \in 1..Len(ts) : ts[n] = Op(":")})

\* C10: a printed Field is its attributes, its visibility, its ident and a
\* colon when it has an ident, and its type; the colon is there exactly
\* when the ident is, whatever colon_token holds.
C10_PrintField ==
    (phase = "printed" /\ op \in FieldOps)
        => /\ out = append_all_attrs(res.node.attrs)
                        \o Visibility_to_tokens(res.node.vis)
                        \o (IF IsSome(res.node.ident)
                            THEN <<Term(res.node.ident[1]), Op(":")>>
                            ELSE <<>>)
                        \o Type_to_tokens(res.node.ty)
           /\ Colons(out) = (IF IsSome(res.node.ident) THEN 1 ELSE 0)

\* A built field with an ident and no colon_token was printed with a colon.
C10_Witness ==
    /\ phase = "printed"
    /\ op = "Field"
    /\ IsSome(res.node.ident)
    /\ res.node.colon_token = None
    /\ Colons(out) = 1

====
